---- MODULE Spec2Model ----
(***************************************************************************)
(* The task-tree supervisor of true/asyn.py (classes TaskInfo, AsynCleanup *)
(* and Asyn) as a state machine.                                           *)
(*                                                                         *)
(* asyncio runs one task at a time and switches only where a coroutine     *)
(* really suspends.  Every action below is therefore one atomic block of   *)
(* the code: it starts at an API call or at the wake-up of a suspended     *)
(* coroutine and runs (operator Exec) up to the next suspension.           *)
(*                                                                         *)
(* The program state is packed in a record ("store") so that the blocks of *)
(* a handler can be composed sequentially; Pack and Unpack convert between *)
(* the variables and the store.                                            *)
(*                                                                         *)
(* Timestamps (loop.time()) are abstracted to the ordinal of the write:    *)
(* start_time[h] = 0 is None, n > 0 is the n-th value written.             *)
(***************************************************************************)
EXTENDS Integers, Sequences, FiniteSets, TLC

\* ------------------------------------------------------------------ bounds
NumHandles == 3        \* handles that can be created (the root included)
MaxCalls == 3          \* API calls the application issues
MaxCallbacks == 2      \* cleanup callbacks registered per handle
RecursionLimit == 4    \* nested calls the interpreter allows (sys.getrecursionlimit())

H == 1..NumHandles
NoHandle == 0          \* Python None where a handle is expected

\* ------------------------------------------------------------- value sets
TaskStates == {"PENDING", "RUNNING", "COMPLETED", "CANCELLED", "FAILED", "BLOCKED"}
TerminalStates == {"COMPLETED", "CANCELLED", "FAILED"}
Terminal(st) == st \in TerminalStates

PyNone == "<None>"                      \* Python None where a string is expected
Reasons == {"demo"}                     \* the reason argument of cancel
Str(x) == IF x = PyNone THEN "None" ELSE x     \* f"{x}"
Name(h) == "h" \o ToString(h)           \* the name the caller gives handle h

\* The asyncio.Task stored in info.task: "none" is None; "cancelling" is a
\* running task that has a cancellation request it has not yet seen.
TaskValues == {"none", "running", "cancelling", "returned", "raised", "cancelled"}
TaskDoneValues == {"returned", "raised", "cancelled"}

Outcomes == {"return", "raise", "cancel"}      \* how an awaited coroutine ends
ExcTypes == {"none", "cancel", "error"}        \* what a scope body exits with
\* The cleanup callbacks the application registers: ok1 returns, bad1 raises
\* an Exception.
CallbackIds == {"ok1", "bad1"}
CallbackRaises(c) == c = "bad1"

\* References to the two kinds of object the dependency sets can hold.
AsynRef(h) == <<"Asyn", h>>             \* the handle h
InfoRef(h) == <<"TaskInfo", h>>         \* h.info, the TaskInfo of handle h

Kinds == {"run", "cancel", "exit", "mon", "wdep", "wkids"}
Threads == Kinds \X H

VARIABLES
  created,         \* handles constructed so far
  parent,          \* info._parent
  children,        \* info.children
  state,           \* info.state
  start_time,      \* info.start_time
  end_time,        \* info.end_time
  exception,       \* info.exception
  task,            \* info.task
  cb,              \* _task_done_callback on info.task: "none", "armed", "fired"
  cancel_reason,   \* info.debug_info['cancel_reason']: <<>> when the key is absent
  blocked_reason,  \* info.debug_info['blocked_reason']
  dependencies,    \* info.dependencies: references, as add_dependency stores them
  dependents,      \* info.dependents: references, as add_dependency stores them
  mon,             \* _monitor_task: "none", "scheduled", "stopping" (cancelled
                   \* before its first step), "sweeping", "done"
  callbacks,       \* _cleanup_callbacks
  trace,           \* history: the callbacks invoked on the handle, in order
  cleanups,        \* history: how often the cleanup protocol ran its callbacks step
  scope,           \* async with: "out", "in", "exited"
  exitExc,         \* what the body of the handle's scope exited with
  max_runtime,     \* info.limits.max_runtime: 0 is None
  total_runtime,   \* info.stats.total_runtime
  grp,             \* the AsyncTaskGroup of the application and its asyncio.TaskGroup
  gat,             \* the Asyn.gather call of the application
  wf,              \* the Asyn.wait_for call of the application
  info_parent,     \* info.parent, the attribute create_group sets (not info._parent)
  got,             \* what the last introspection call gave its caller
  th,              \* the coroutines in flight: one per kind and handle
  calls            \* API calls issued

vars == <<created, parent, children, state, start_time, end_time, exception, task,
          cb, cancel_reason, blocked_reason, dependencies, dependents, mon,
          callbacks, trace, cleanups, scope, exitExc, max_runtime,
          total_runtime, grp, gat, wf, info_parent,
                 got, th, calls>>

Pack ==
  [created |-> created, parent |-> parent, children |-> children, state |-> state,
   start_time |-> start_time, end_time |-> end_time, exception |-> exception,
   task |-> task, cb |-> cb, cancel_reason |-> cancel_reason,
   blocked_reason |-> blocked_reason, dependencies |-> dependencies,
   dependents |-> dependents, mon |-> mon, callbacks |-> callbacks, trace |-> trace,
   cleanups |-> cleanups, scope |-> scope, exitExc |-> exitExc,
   max_runtime |-> max_runtime, total_runtime |-> total_runtime, grp |-> grp,
   gat |-> gat, wf |-> wf, info_parent |-> info_parent, got |-> got, th |-> th,
   calls |-> calls]

Unpack(s) ==
  /\ created' = s.created
  /\ parent' = s.parent
  /\ children' = s.children
  /\ state' = s.state
  /\ start_time' = s.start_time
  /\ end_time' = s.end_time
  /\ exception' = s.exception
  /\ task' = s.task
  /\ cb' = s.cb
  /\ cancel_reason' = s.cancel_reason
  /\ blocked_reason' = s.blocked_reason
  /\ dependencies' = s.dependencies
  /\ dependents' = s.dependents
  /\ mon' = s.mon
  /\ callbacks' = s.callbacks
  /\ trace' = s.trace
  /\ cleanups' = s.cleanups
  /\ scope' = s.scope
  /\ exitExc' = s.exitExc
  /\ max_runtime' = s.max_runtime
  /\ total_runtime' = s.total_runtime
  /\ grp' = s.grp
  /\ gat' = s.gat
  /\ wf' = s.wf
  /\ info_parent' = s.info_parent
  /\ got' = s.got
  /\ th' = s.th
  /\ calls' = s.calls

\* ---------------------------------------------------------------- threads
\* A coroutine in flight.  pc is its position; tgt the handle whose cleanup
\* it is running and ret where it continues afterwards; todo/wait/creason/
\* bounded/timedOut describe a fan-out of child cancellations; hit is the
\* history of the children this call cancelled, st0 the state of the handle and
\* desc0 its descendants when the call was made; ccl is whether the task running
\* the coroutine has been cancelled; res is how its last call ended.
IdleThread ==
  [pc |-> "idle", tgt |-> NoHandle, ret |-> "idle", todo |-> {}, wait |-> {},
   creason |-> PyNone, bounded |-> FALSE, timedOut |-> FALSE, abort |-> FALSE,
   incl |-> FALSE, tmo |-> FALSE, reason |-> PyNone, outcome |-> "none",
   sweep |-> <<>>, ord |-> <<>>, old |-> FALSE, hit |-> {}, st0 |-> "none",
   desc0 |-> {}, ccl |-> FALSE,
   res |-> "none"]

WaitPcs == {"r_await", "c_mon", "c_kids", "c_self", "k_self", "k_kids", "k_tmo_w",
            "w_gather"}
RestPcs == WaitPcs \cup {"idle"}

Goto(s, t, pc) == [s EXCEPT !.th[t].pc = pc]
Finish(s, t, res) == [s EXCEPT !.th[t] = [IdleThread EXCEPT !.res = res]]

TaskActive(s, h) == s.task[h] \in {"running", "cancelling"}     \* task and not task.done()
\* `await task` has returned: the task is done and the callbacks added to it
\* before the waiter's (the _task_done_callback of create_task) have run.
Awaited(s, h) == s.task[h] \in TaskDoneValues /\ s.cb[h] # "armed"

\* task.cancel()
RequestCancel(s, h) ==
  IF s.task[h] = "running" THEN [s EXCEPT !.task[h] = "cancelling"] ELSE s

RECURSIVE RequestCancelAll(_, _)
RequestCancelAll(s, ks) ==
  IF ks = {} THEN s
  ELSE LET k == CHOOSE x \in ks : TRUE
       IN RequestCancelAll(RequestCancel(s, k), ks \ {k})

\* The time stamps written by `x = self._loop.time()`.
Stamp(n) == n + 1

\* ------------------------------------------------- pieces of the handlers
\* Asyn._cancel_self and AsynCleanup._cancel_self up to their await: the two
\* bodies are the same.
CancelSelf(s, h, reason) ==
  IF TaskActive(s, h)
  THEN RequestCancel([s EXCEPT !.state[h] = "CANCELLED",
                               !.cancel_reason[h] = <<reason>>], h)
  ELSE s

\* AsynCleanup._cleaned when __aexit__ is entered: cleanup() builds a new
\* AsynCleanup for every call and __init__ sets the flag to False.
Cleaned == FALSE

\* The (exc_type, exc_val) that reaches AsynCleanup.__aexit__: run, cancel and
\* _cleanup_child pass (None, None, None); Asyn.__aexit__ enters the cleanup
\* around `pass`, so whatever the scope body raised, the cleanup sees None.
AexitExcType(bodyExc) == "none"

\* AsynCleanup._update_final_state
UpdateFinalState(s, h, exc_type) ==
  IF exc_type = "none" THEN [s EXCEPT !.state[h] = "COMPLETED"]
  ELSE IF exc_type = "cancel" THEN [s EXCEPT !.state[h] = "CANCELLED"]
  ELSE [s EXCEPT !.state[h] = "FAILED", !.exception[h] = "Err"]

\* Variants of the callback loop that the checks of the callback claims must
\* tell apart from the loop of the code: one that takes the callbacks from the
\* back of the list, one whose try/except is around the whole loop.
NextCallbackFromBack(q) == q[Len(q)]
RemainingUntilRaise(q) == IF CallbackRaises(Head(q)) THEN <<>> ELSE Tail(q)

\* AsynCleanup._run_cleanup_callbacks (the callbacks are synchronous functions).
\* The loop `for callback in self._task._cleanup_callbacks` takes the callbacks
\* from the front of the list.
NextCallback(q) == Head(q)

\* The try/except Exception is inside the loop: whether the callback returned or
\* raised, the loop goes on with the rest of the list.
Remaining(q) == Tail(q)

\* callback(): the history records the invocation
InvokeCallback(s, h, c) == [s EXCEPT !.trace[h] = Append(@, c)]

RECURSIVE RunCallbacksFrom(_, _, _)
RunCallbacksFrom(s, h, q) ==
  IF q = <<>> THEN s
  ELSE RunCallbacksFrom(InvokeCallback(s, h, NextCallback(q)), h, Remaining(q))

RunCleanupCallbacks(s, h) ==
  [RunCallbacksFrom(s, h, s.callbacks[h]) EXCEPT !.cleanups[h] = @ + 1]

\* The runtime limits the application sets, and what update_stats computes for
\* a started handle: time.time() - start_time, where start_time was read from
\* the clock of the event loop; it is beyond the limits.
RuntimeLimits == {1}
Elapsed == 2

\* TaskInfo.update_stats (peak_memory and child_tasks are not modelled)
UpdateStats(s, h) ==
  IF s.start_time[h] # 0 THEN [s EXCEPT !.total_runtime[h] = Elapsed] ELSE s

\* TaskInfo.check_resource_limits: the runtime test
CheckResourceLimits(s, h) ==
  s.max_runtime[h] # 0 /\ s.total_runtime[h] > s.max_runtime[h]

\* AsynCleanup._cleanup_resources
CleanupResources(s, h) ==
  LET s1 == UpdateStats([s EXCEPT !.end_time[h] = Stamp(@)], h)
  IN IF s.parent[h] # NoHandle
     THEN [s1 EXCEPT !.children[s.parent[h]] = @ \ {h}]
     ELSE s1

\* Asyn._notify_dependents: `dependent.info.state = ...` needs an Asyn; on a
\* TaskInfo it raises AttributeError, which the loop does not catch.
NotifyRaises(s, h) == \E r \in s.dependents[h] : r[1] # "Asyn"

NotifyDependents(s, h, reason) ==
  IF NotifyRaises(s, h) THEN s
  ELSE
  [s EXCEPT
     !.state = [d \in H |-> IF AsynRef(d) \in s.dependents[h] THEN "BLOCKED" ELSE @[d]],
     !.blocked_reason =
        [d \in H |-> IF AsynRef(d) \in s.dependents[h]
                     THEN <<"Dependency cancelled: " \o Name(h)
                             \o " (" \o Str(reason) \o ")">>
                     ELSE @[d]]]

\* A done callback that sets the state but leaves end_time alone: what the
\* last line of _task_done_callback is told apart from.
TaskDoneCallbackNoEndTime(s, h) ==
  LET s1 == IF s.task[h] = "raised"
            THEN [s EXCEPT !.state[h] = "FAILED", !.exception[h] = "Err"]
            ELSE IF s.task[h] = "cancelled"
            THEN [s EXCEPT !.state[h] = "CANCELLED"]
            ELSE [s EXCEPT !.state[h] = "COMPLETED"]
  IN [s1 EXCEPT !.cb[h] = "fired"]

\* Asyn._task_done_callback
TaskDoneCallback(s, h) ==
  LET s1 == IF s.task[h] = "raised"
            THEN [s EXCEPT !.state[h] = "FAILED", !.exception[h] = "Err"]
            ELSE IF s.task[h] = "cancelled"
            THEN [s EXCEPT !.state[h] = "CANCELLED"]
            ELSE [s EXCEPT !.state[h] = "COMPLETED"]
  IN [s1 EXCEPT !.end_time[h] = Stamp(@), !.cb[h] = "fired"]

\* Asyn.run from the end of `await coroutine` to the cleanup call: the except
\* clause the outcome selects, then the finally clause.
RunFinally(s, h, outcome) ==
  LET s1 == IF outcome = "cancel" THEN [s EXCEPT !.state[h] = "CANCELLED"]
            ELSE IF outcome = "raise"
            THEN [s EXCEPT !.state[h] = "FAILED", !.exception[h] = "Err"]
            ELSE s
  IN [s1 EXCEPT !.state[h] = "COMPLETED", !.end_time[h] = Stamp(@)]

\* The handles of set S in ascending order.
RECURSIVE Ascending(_)
Ascending(S) ==
  IF S = {} THEN <<>>
  ELSE LET m == CHOOSE x \in S : \A y \in S : x <= y
       IN <<m>> \o Ascending(S \ {m})

Range(q) == {q[i] : i \in DOMAIN q}

\* The orders in which a loop over the set S can visit it (a WeakSet iterates
\* in no fixed order).
Orders(S) == {q \in [1..Cardinality(S) -> S] : Range(q) = S}

\* `list(self.info.children)` of handle h, in the order ord where ord decides.
Ordered(s, h, ord) ==
  SelectSeq(ord, LAMBDA k : k \in s.children[h])
    \o Ascending(s.children[h] \ Range(ord))

\* A fan-out of child cancellations: one asyncio task per child of the
\* snapshot, each running child._cancel_self(reason), awaited together.
FanOut(s, t, kids, pc, reason, bounded) ==
  [s EXCEPT !.th[t] = [@ EXCEPT !.pc = pc, !.todo = kids, !.wait = {},
                                !.creason = reason, !.bounded = bounded,
                                !.timedOut = FALSE]]

\* task.cancel() on the monitor task of c.  A monitor that has not started
\* never runs: its first step ends it.  A monitor suspended inside a child's
\* cleanup hands the request to what it awaits: the child's monitor or runtime task (whose CancelledError
\* the cleanup then swallows, so the sweep goes on), or the gathered child
\* cancellations (wait_for cancels them, waits for them and re-raises, which
\* ends the monitor).
RECURSIVE CancelMonitor(_, _)
CancelMonitor(s, c) ==
  LET m == <<"mon", c>> IN
  IF s.mon[c] = "scheduled" THEN [s EXCEPT !.mon[c] = "stopping"]
  ELSE IF s.mon[c] = "sweeping"
  THEN CASE s.th[m].pc = "c_mon" -> CancelMonitor(s, s.th[m].tgt)
         [] s.th[m].pc = "c_kids" ->
              [RequestCancelAll(s, s.th[m].wait)
                 EXCEPT !.th[m].todo = {}, !.th[m].abort = TRUE]
         [] s.th[m].pc = "c_self" -> RequestCancel(s, s.th[m].tgt)
         [] OTHER -> s
  ELSE s

\* ------------------------------------- the cleanup protocol, block by block
\* AsynCleanup.__aexit__: the _cleaned test and the stop of the monitor
CleanupBegin(s, t) ==
  LET c == s.th[t].tgt IN
  IF Cleaned THEN Goto(s, t, s.th[t].ret)
  ELSE IF s.mon[c] \in {"scheduled", "stopping", "sweeping"}
       THEN Goto(CancelMonitor(s, c), t, "c_mon")
  ELSE Goto(s, t, "c_kids0")

\* AsynCleanup._cancel_children(timeout=1.0)
CleanupCancelChildren(s, t) ==
  LET c == s.th[t].tgt IN
  IF s.children[c] = {} THEN Goto(s, t, "c_self0")
  ELSE FanOut(s, t, s.children[c], "c_kids",
              "Parent " \o Name(c) \o " cleanup", TRUE)

\* AsynCleanup.__aexit__: `if task and not task.done(): await self._cancel_self()`
CleanupCancelSelf(s, t) ==
  LET c == s.th[t].tgt IN
  IF TaskActive(s, c) THEN Goto(CancelSelf(s, c, "Cleanup"), t, "c_self")
  ELSE Goto(s, t, "c_final")

\* AsynCleanup.__aexit__: callbacks, resources, final state, _cleaned = True
CleanupFinal(s, t) ==
  LET c == s.th[t].tgt
      s1 == RunCleanupCallbacks(s, c)
      s2 == CleanupResources(s1, c)
      s3 == UpdateFinalState(s2, c, AexitExcType(s.exitExc[c]))
  IN Goto(s3, t, s.th[t].ret)

\* --------------------------------------------------- Asyn.run, block by block
\* Asyn.run up to `await coroutine`
RunBegin(s, t) ==
  LET h == t[2] IN
  Goto([s EXCEPT !.state[h] = "RUNNING", !.start_time[h] = Stamp(@)], t, "r_await")

\* Asyn.run: the except and finally clauses, then cleanup().__aexit__
RunEnd(s, t) ==
  LET h == t[2] IN
  [RunFinally(s, h, s.th[t].outcome)
     EXCEPT !.th[t] = [@ EXCEPT !.pc = "c_begin", !.tgt = h, !.ret = "r_done"]]

\* Asyn.run: what its caller gets once the cleanup has returned
RunResult(outcome) ==
  CASE outcome = "return" -> "returned"
    [] outcome = "raise" -> "raised"
    [] OTHER -> "cancelled"

\* ------------------------------------------------ Asyn.cancel, block by block
\* Asyn.cancel: `await self._cancel_self(reason)`
CancelBegin(s, t) ==
  LET h == t[2] IN
  IF TaskActive(s, h) THEN Goto(CancelSelf(s, h, s.th[t].reason), t, "k_self")
  ELSE Goto(s, t, "k_kids0")

\* Asyn.cancel: `if include_children: await self._cancel_children(timeout, reason)`
CancelChildren(s, t) ==
  LET h == t[2] IN
  IF s.th[t].incl /\ s.children[h] # {}
  THEN FanOut(s, t, s.children[h], "k_kids",
              "Parent cancelled: " \o Str(s.th[t].reason), s.th[t].tmo)
  ELSE Goto(s, t, "k_tmo")

\* Asyn._cancel_with_timeout up to the await inside wait_for: wait_for(None, t)
\* raises TypeError, which leaves cancel.
CancelWithTimeout(s, t) ==
  LET h == t[2] IN
  IF ~s.th[t].tmo THEN Goto(s, t, "k_notify")
  ELSE IF s.task[h] = "none" THEN Finish(s, t, "error")
  ELSE Goto(s, t, "k_tmo_w")

\* Asyn._cancel_with_timeout after the await: the result of the (finished) task;
\* only TimeoutError and CancelledError are caught.
CancelWithTimeoutResult(s, t) ==
  LET h == t[2] IN
  IF s.task[h] = "raised" THEN Finish(s, t, "error")
  ELSE Goto(s, t, "k_notify")

\* Asyn.cancel: `await self._notify_dependents(reason)`, then cleanup().__aexit__
CancelNotify(s, t) ==
  LET h == t[2] IN
  IF NotifyRaises(s, h) THEN Finish(s, t, "error")
  ELSE
  [NotifyDependents(s, h, s.th[t].reason)
     EXCEPT !.th[t] = [@ EXCEPT !.pc = "c_begin", !.tgt = h, !.ret = "k_done"]]

\* ------------------------ Asyn.wait_dependencies and Asyn.wait_for_children
\* `await asyncio.gather(*tasks)` of the runtime tasks of the handles ks: with
\* no task it returns at once, otherwise the coroutine suspends.
Gather(s, t, ks) ==
  IF ks = {} THEN Finish(s, t, "ok")
  ELSE [s EXCEPT !.th[t] = [@ EXCEPT !.pc = "w_gather", !.wait = ks]]

\* gather is over: every task is done, or one of them has raised or was
\* cancelled (gather then raises at once, without waiting for the others).
GatherDone(s, ks) ==
  \/ \A k \in ks : Awaited(s, k)
  \/ \E k \in ks : Awaited(s, k) /\ s.task[k] # "returned"

GatherEnd(s, t) ==
  Finish(s, t, IF \A k \in s.th[t].wait : s.task[k] = "returned"
               THEN "ok" ELSE "error")

\* Asyn.wait_dependencies: the tasks of the dependencies that have one
WaitDependenciesBegin(s, t) ==
  LET h == t[2] IN
  Gather(s, t, {d \in H : AsynRef(d) \in s.dependencies[h] /\ s.task[d] # "none"})

\* Asyn.wait_for_children: the unfinished tasks of the children that have one
WaitForChildrenBegin(s, t) ==
  LET h == t[2] IN
  Gather(s, t, {k \in s.children[h] : TaskActive(s, k)})

\* The CancelledError that leaves a fan-out of child cancellations is caught
\* neither by _cancel_children (TimeoutError only) nor by AsynCleanup.__aexit__
\* (Exception only): it ends run, cancel or Asyn.__aexit__ on the spot, and with
\* __aexit__ the scope.
CallerCancelled(s, t) ==
  LET h == t[2] IN
  Finish(IF t[1] = "exit" THEN [s EXCEPT !.scope[h] = "exited"] ELSE s, t, "cancelled")

\* ------------------------------------------------------- Asyn.__aexit__
ExitEnd(s, t) ==
  LET h == t[2] IN Finish([s EXCEPT !.scope[h] = "exited"], t, "ok")

\* ---------------------------------------------- Asyn._monitor, block by block
\* _check_task_state (info._last_active is not modelled), then the snapshot
\* `list(self.info.children)` of _check_children
MonitorBegin(s, t) ==
  LET h == t[2] IN
  [s EXCEPT !.th[t] = [@ EXCEPT !.pc = "m_kids",
                                !.sweep = Ordered(s, h, s.th[t].ord)]]

\* Asyn._check_children: the loop; _cleanup_child for a terminal child
CheckChildren(s, t) ==
  LET sw == s.th[t].sweep IN
  IF sw = <<>> THEN Goto(s, t, "m_zomb0")
  ELSE IF Terminal(s.state[Head(sw)])
       THEN [s EXCEPT !.th[t] = [@ EXCEPT !.pc = "c_begin", !.tgt = Head(sw),
                                         !.ret = "m_kid_done", !.sweep = Tail(sw)]]
       ELSE [s EXCEPT !.th[t].sweep = Tail(sw)]

\* Asyn._cleanup_child after the child's cleanup: children.discard(child)
CleanupChildEnd(s, t, pc) ==
  LET h == t[2] IN
  Goto([s EXCEPT !.children[h] = @ \ {s.th[t].tgt}], t, pc)

\* Asyn._cleanup_zombies: the snapshot
ZombiesBegin(s, t) ==
  LET h == t[2] IN
  [s EXCEPT !.th[t] = [@ EXCEPT !.pc = "m_zomb",
                                !.sweep = Ordered(s, h, s.th[t].ord)]]

\* Asyn._cleanup_zombies: the loop.  old is whether
\* current_time - end_time > MAX_ZOMBIE_AGE.
CleanupZombies(s, t) ==
  LET sw == s.th[t].sweep
      k == Head(sw) IN
  IF sw = <<>> THEN Goto(s, t, "m_end")
  ELSE IF s.state[k] # "RUNNING" /\ s.task[k] \in {"returned", "raised"}
       THEN IF s.end_time[k] = 0
            THEN [s EXCEPT !.end_time[k] = Stamp(@), !.th[t].sweep = Tail(sw)]
            ELSE IF s.th[t].old
            THEN [s EXCEPT !.th[t] = [@ EXCEPT !.pc = "c_begin", !.tgt = k,
                                              !.ret = "m_zkid_done",
                                              !.sweep = Tail(sw)]]
            ELSE [s EXCEPT !.th[t].sweep = Tail(sw)]
       ELSE [s EXCEPT !.th[t].sweep = Tail(sw)]

\* The monitor task ends (normally or cancelled): _monitor_done_callback
MonitorEnd(s, t) ==
  LET h == t[2] IN Finish([s EXCEPT !.mon[h] = "done"], t, "ok")

\* ------------------------------------------------------------ the scheduler
\* One block of thread t, chosen by its position.
Step(s, t) ==
  LET pc == s.th[t].pc IN
  CASE pc = "c_begin" -> CleanupBegin(s, t)
    [] pc = "c_kids0" -> CleanupCancelChildren(s, t)
    [] pc = "c_self0" -> CleanupCancelSelf(s, t)
    [] pc = "c_final" -> CleanupFinal(s, t)
    [] pc = "r_begin" -> RunBegin(s, t)
    [] pc = "r_end" -> RunEnd(s, t)
    [] pc = "r_done" -> Finish(s, t, RunResult(s.th[t].outcome))
    [] pc = "k_begin" -> CancelBegin(s, t)
    [] pc = "k_kids0" -> CancelChildren(s, t)
    [] pc = "k_tmo" -> CancelWithTimeout(s, t)
    [] pc = "k_tmo_r" -> CancelWithTimeoutResult(s, t)
    [] pc = "k_notify" -> CancelNotify(s, t)
    [] pc = "k_done" -> Finish(s, t, "ok")
    [] pc = "x_done" -> ExitEnd(s, t)
    [] pc = "m_begin" -> MonitorBegin(s, t)
    [] pc = "m_kids" -> CheckChildren(s, t)
    [] pc = "m_kid_done" -> CleanupChildEnd(s, t, "m_kids")
    [] pc = "m_zomb0" -> ZombiesBegin(s, t)
    [] pc = "m_zomb" -> CleanupZombies(s, t)
    [] pc = "m_zkid_done" -> CleanupChildEnd(s, t, "m_zomb")
    [] pc = "m_end" -> MonitorEnd(s, t)
    [] pc = "m_abort" -> MonitorEnd(s, t)
    [] pc = "x_abort" -> CallerCancelled(s, t)
    [] pc = "d_begin" -> WaitDependenciesBegin(s, t)
    [] pc = "j_begin" -> WaitForChildrenBegin(s, t)
    [] pc = "w_done" -> GatherEnd(s, t)

\* Thread t runs until it suspends or ends.
RECURSIVE Exec(_, _)
Exec(s, t) == IF s.th[t].pc \in RestPcs THEN s ELSE Exec(Step(s, t), t)

\* Whether what thread t awaits has happened, and where it continues.
CanResume(s, t) ==
  LET r == s.th[t] IN
  CASE r.pc = "c_mon" -> s.mon[r.tgt] = "done"
    [] r.pc \in {"c_kids", "k_kids"} ->
         r.todo = {} /\ \A k \in r.wait : Awaited(s, k)
    [] r.pc = "c_self" -> Awaited(s, r.tgt)
    [] r.pc = "k_self" -> Awaited(s, t[2])
    [] r.pc = "k_tmo_w" -> TRUE
    [] r.pc = "w_gather" -> GatherDone(s, r.wait)
    [] OTHER -> FALSE

ResumePc(s, t) ==
  LET r == s.th[t] IN
  CASE r.pc = "c_mon" -> "c_kids0"
    [] r.pc = "c_kids" -> IF r.abort
                          THEN IF t[1] = "mon" THEN "m_abort" ELSE "x_abort"
                          ELSE "c_self0"
    [] r.pc = "c_self" -> "c_final"
    [] r.pc = "k_self" -> "k_kids0"
    [] r.pc = "k_kids" -> IF r.abort THEN "x_abort" ELSE "k_tmo"
    [] r.pc = "k_tmo_w" -> "k_tmo_r"
    [] r.pc = "w_gather" -> "w_done"

\* ------------------------------------------------------------ construction
\* The handle a constructor call creates: handles are numbered as created.
NewHandle == CHOOSE n \in H \ created : \A m \in H \ created : n <= m

\* A constructor that sets the fields and starts the monitor but leaves the
\* parent's registry alone: what the registration of Asyn.__init__ is told
\* apart from.
ConstructUnregistered(s, n, p) ==
  [s EXCEPT !.created = @ \cup {n}, !.parent[n] = p,
            !.state[n] = "PENDING", !.start_time[n] = 0,
            !.end_time[n] = 0, !.exception[n] = "none",
            !.children[n] = {}, !.task[n] = "none",
            !.mon[n] = "scheduled"]

\* TaskInfo.__init__ and Asyn.__init__ with parent p (NoHandle for a root):
\* the fields, the registration with the parent, _start_monitoring.
Construct(s, n, p) ==
  LET s1 == [s EXCEPT !.created = @ \cup {n}, !.parent[n] = p,
                      !.state[n] = "PENDING", !.start_time[n] = 0,
                      !.end_time[n] = 0, !.exception[n] = "none",
                      !.children[n] = {}, !.task[n] = "none",
                      !.mon[n] = "scheduled"]
  IN IF p # NoHandle THEN [s1 EXCEPT !.children[p] = @ \cup {n}] ELSE s1

\* A create_group that also registers the new group under the tasks it takes:
\* what the one-way registration of create_group is told apart from.
AdoptTasksBothWays(s, n, ts) ==
  [Construct(s, n, NoHandle)
     EXCEPT !.info_parent = [h \in H |-> IF h \in ts THEN n ELSE @[h]],
            !.children = [h \in H |-> IF h = n THEN ts
                                      ELSE IF h \in ts THEN @[h] \cup {n}
                                      ELSE @[h]]]

\* Asyn.create_group(*tasks): the group n, a root, then for each task the
\* attribute info.parent (info._parent and the registry of the parent it has
\* are not touched) and the registration in the group.
AdoptTasks(s, n, ts) ==
  [Construct(s, n, NoHandle)
     EXCEPT !.info_parent = [h \in H |-> IF h \in ts THEN n ELSE @[h]],
            !.children[n] = @ \cup ts]

\* One more API call of the application.
Called(s) == [s EXCEPT !.calls = @ + 1]
Start(s, t, pc) == [s EXCEPT !.th[t] = [IdleThread EXCEPT !.pc = pc]]

\* ------------------------------------------------------------ AsyncTaskGroup
\* The application has one group, AsyncTaskGroup(parent=root).  phase is where
\* its `async with` block is; active and tasks are _active and _tasks; native,
\* errors, aborting and parentCancel are _tasks, _errors, _aborting and
\* _parent_cancel_requested of the asyncio.TaskGroup behind it; propagate is
\* the CancelledError the exit keeps to re-raise; res is how the last
\* create_task call began and raised what the exit raised.
GroupParent == 1
NoError == [kind |-> "none", causes |-> {}]
NewGroup ==
  [phase |-> "new", active |-> FALSE, tasks |-> {}, native |-> {}, errors |-> {},
   aborting |-> FALSE, parentCancel |-> FALSE, propagate |-> FALSE,
   res |-> "none", raised |-> NoError]

\* A create_task with no test of the group at all, as in _legacy_create_task:
\* what the test of create_task is told apart from.
NeverInactive(active) == FALSE

\* AsyncTaskGroup.create_task: `if not self._active`
NotActive(active) == ~active

\* asyncio.TaskGroup._abort
NativeAbort(s) == [RequestCancelAll(s, s.grp.native) EXCEPT !.grp.aborting = TRUE]

\* AsyncTaskGroup.create_task up to `await task`: the test of _active, the
\* native create_task (which refuses while the group shuts down), the handle n
\* under the parent of the group with the task stored in it; no done callback
\* is added to the task for the handle.
GroupCreate(s, n) ==
  IF NotActive(s.grp.active) THEN [s EXCEPT !.grp.res = "not active"]
  ELSE IF s.grp.aborting THEN [s EXCEPT !.grp.res = "shutting down"]
  ELSE [Construct(s, n, GroupParent)
          EXCEPT !.task[n] = "running",
                 !.grp = [@ EXCEPT !.tasks = @ \cup {n}, !.native = @ \cup {n},
                                   !.res = "created"]]

\* asyncio.TaskGroup._on_task_done for the task of handle k
NativeTaskDone(s, k) ==
  LET s1 == [s EXCEPT !.grp.native = @ \ {k}] IN
  IF s.task[k] # "raised" THEN s1
  ELSE LET s2 == [s1 EXCEPT !.grp.errors = @ \cup {k}]
       IN IF ~s.grp.aborting /\ ~s.grp.parentCancel
          THEN [NativeAbort(s2) EXCEPT !.grp.parentCancel = TRUE]
          ELSE s2

\* asyncio.TaskGroup.__aexit__ once no task is left: what it raises
GroupExitEnd(s) ==
  [s EXCEPT !.grp = [@ EXCEPT
     !.phase = "exited",
     !.raised = IF s.grp.propagate /\ s.grp.errors = {}
                THEN [kind |-> "cancel", causes |-> {}]
                ELSE IF s.grp.errors # {}
                THEN [kind |-> "group", causes |-> s.grp.errors]
                ELSE NoError]]

\* AsyncTaskGroup.__aexit__ and asyncio.TaskGroup.__aexit__ up to the wait for
\* the tasks; exc is what the body of the block ended with
GroupExitBegin(s, exc) ==
  LET s1 == [s EXCEPT !.grp = [@ EXCEPT
                !.active = FALSE, !.phase = "exiting",
                !.propagate = (exc = "cancel" /\ ~s.grp.parentCancel)]]
      s2 == IF exc # "none" /\ ~s.grp.aborting THEN NativeAbort(s1) ELSE s1
  IN IF s2.grp.native = {} THEN GroupExitEnd(s2) ELSE s2

\* ------------------------------------------- Asyn.gather and Asyn.wait_for
\* The n handles the next n constructor calls create.
RECURSIVE FreshHandles(_, _)
FreshHandles(free, n) ==
  IF n = 0 THEN {}
  ELSE LET m == CHOOSE x \in free : \A y \in free : x <= y
       IN {m} \cup FreshHandles(free \ {m}, n - 1)

\* cls(name=...) for each handle of hs: roots, no parent
RECURSIVE ConstructAll(_, _)
ConstructAll(s, hs) ==
  IF hs = {} THEN s
  ELSE LET m == CHOOSE x \in hs : TRUE
       IN ConstructAll(Construct(s, m, NoHandle), hs \ {m})

\* How many coroutines the application hands to gather.
GatherSizes == {2}

\* A gather call: members are the handles it made, one per coroutine; unstarted
\* those whose run has not started; rexc is return_exceptions; res is "none"
\* (no call), "pending", "returned" or "raised".
NoGather == [members |-> {}, unstarted |-> {}, rexc |-> FALSE, res |-> "none"]

\* A wait_for call with a timeout: members is the handle it made (or nothing);
\* timedOut is whether the timeout has elapsed; res is "none", "pending",
\* "returned", "raised", "cancelled" or "timeout".
NoWaitFor == [members |-> {}, unstarted |-> {}, timedOut |-> FALSE, res |-> "none"]

\* Asyn.gather(*coros, return_exceptions=rexc) up to its await: a handle and a
\* run(coro) coroutine per argument, handed to asyncio.gather
GatherBegin(s, hs, rexc) ==
  [ConstructAll(s, hs)
     EXCEPT !.gat = [members |-> hs, unstarted |-> hs, rexc |-> rexc,
                     res |-> "pending"]]

\* Asyn.wait_for(coro, timeout) up to its await: a handle and its run(coro),
\* handed to asyncio.wait_for
WaitForBegin(s, n) ==
  [Construct(s, n, NoHandle)
     EXCEPT !.wf = [members |-> {n}, unstarted |-> {n}, timedOut |-> FALSE,
                    res |-> "pending"]]

\* The members whose run has ended, and those among them that did not return.
Ended(s, ms, unstarted) ==
  {m \in ms \ unstarted : s.th[<<"run", m>>].pc = "idle"}
Failed(s, ms, unstarted) ==
  {m \in Ended(s, ms, unstarted) : s.th[<<"run", m>>].res # "returned"}

\* asyncio.gather is over: with return_exceptions=False at the first member
\* that raises or is cancelled, otherwise when all have ended.  Nothing is
\* done to the members that are still running.
GatherOver(s) ==
  \/ Ended(s, s.gat.members, s.gat.unstarted) = s.gat.members
  \/ ~s.gat.rexc /\ Failed(s, s.gat.members, s.gat.unstarted) # {}

GatherResult(s) ==
  [s EXCEPT !.gat.res =
     IF ~s.gat.rexc /\ Failed(s, s.gat.members, s.gat.unstarted) # {}
     THEN "raised" ELSE "returned"]

\* The cancellation of the task that runs the suspended coroutine t reaches
\* what the coroutine awaits: the monitor or the runtime task, whose
\* CancelledError the code then swallows, or the gathered child cancellations,
\* which are cancelled, waited for, and then let the CancelledError through.
\* A run that awaits its coroutine hands the CancelledError to the coroutine.
CallerCancel(s, t) ==
  LET pc == s.th[t].pc
      s1 == [s EXCEPT !.th[t].ccl = TRUE]
  IN CASE pc = "c_mon" -> CancelMonitor(s1, s.th[t].tgt)
       [] pc = "c_self" -> RequestCancel(s1, s.th[t].tgt)
       [] pc = "k_self" -> RequestCancel(s1, t[2])
       [] pc \in {"c_kids", "k_kids"} ->
            [RequestCancelAll(s1, s.th[t].wait)
               EXCEPT !.th[t].todo = {}, !.th[t].abort = TRUE]
       [] OTHER -> s1

\* asyncio.wait_for when the timeout elapses: it cancels the task of run(coro)
\* and goes on waiting for it
WaitForExpire(s) ==
  LET m == CHOOSE x \in s.wf.members : TRUE
  IN [CallerCancel(s, <<"run", m>>) EXCEPT !.wf.timedOut = TRUE]

\* asyncio.wait_for once the task of run(coro) is done: its result or its
\* exception, and TimeoutError only if the timeout elapsed and the task ended
\* cancelled
WaitForResult(s) ==
  LET m == CHOOSE x \in s.wf.members : TRUE
      r == s.th[<<"run", m>>].res
  IN [s EXCEPT !.wf.res = IF s.wf.timedOut /\ r = "cancelled" THEN "timeout" ELSE r]

\* The result of an introspection call: op is the call ("none": no call yet),
\* h the handle it was made on, exc the exception it raised ("none": it
\* returned) and val the value it returned.
NoRead == [op |-> "none", h |-> NoHandle, exc |-> "none", val |-> <<>>]

Init ==
  /\ created = {1}
  /\ parent = [h \in H |-> NoHandle]
  /\ children = [h \in H |-> {}]
  /\ state = [h \in H |-> "PENDING"]
  /\ start_time = [h \in H |-> 0]
  /\ end_time = [h \in H |-> 0]
  /\ exception = [h \in H |-> "none"]
  /\ task = [h \in H |-> "none"]
  /\ cb = [h \in H |-> "none"]
  /\ cancel_reason = [h \in H |-> <<>>]
  /\ blocked_reason = [h \in H |-> <<>>]
  /\ dependencies = [h \in H |-> {}]
  /\ dependents = [h \in H |-> {}]
  /\ mon = [h \in H |-> IF h = 1 THEN "scheduled" ELSE "none"]
  /\ callbacks = [h \in H |-> <<>>]
  /\ trace = [h \in H |-> <<>>]
  /\ cleanups = [h \in H |-> 0]
  /\ scope = [h \in H |-> "out"]
  /\ exitExc = [h \in H |-> "none"]
  /\ max_runtime = [h \in H |-> 0]
  /\ total_runtime = [h \in H |-> 0]
  /\ grp = NewGroup
  /\ gat = NoGather
  /\ wf = NoWaitFor
  /\ info_parent = [h \in H |-> NoHandle]
  /\ got = NoRead
  /\ th = [t \in Threads |-> IdleThread]
  /\ calls = 0

\* ----------------------------------------------------------------- actions
\* Asyn(name, parent=p)
CreateHandle(p) ==
  /\ calls < MaxCalls
  /\ created # H
  /\ Unpack(Construct(Called(Pack), NewHandle, p))

\* p.create_task(coro): the child, its runtime task, the done callback
CreateTask(p) ==
  /\ calls < MaxCalls
  /\ created # H
  /\ LET n == NewHandle
     IN Unpack([Construct(Called(Pack), n, p)
                  EXCEPT !.task[n] = "running", !.cb[n] = "armed"])

\* the application appends a callback to h._cleanup_callbacks
RegisterCleanup(h, c) ==
  /\ calls < MaxCalls
  /\ Len(callbacks[h]) < MaxCallbacks
  /\ Unpack([Called(Pack) EXCEPT !.callbacks[h] = Append(@, c)])

\* h.set_resource_limit(runtime=v)
SetResourceLimit(h, v) ==
  /\ calls < MaxCalls
  /\ max_runtime[h] = 0
  /\ Unpack([Called(Pack) EXCEPT !.max_runtime[h] = v])

\* b.add_dependency(a) (or b.info.add_dependency(a)): TaskInfo.add_dependency
\* adds the handle a to its own dependencies and itself, a TaskInfo, to the
\* dependents of a.
AddDependency(b, a) ==
  /\ calls < MaxCalls
  /\ Unpack([Called(Pack) EXCEPT !.dependencies[b] = @ \cup {AsynRef(a)},
                                 !.dependents[a] = @ \cup {InfoRef(b)}])

\* b.remove_dependency(a): TaskInfo.remove_dependency
RemoveDependency(b, a) ==
  /\ calls < MaxCalls
  /\ Unpack([Called(Pack) EXCEPT !.dependencies[b] = @ \ {AsynRef(a)},
                                 !.dependents[a] = @ \ {InfoRef(b)}])

\* h.wait_dependencies()
WaitDependencies(h) ==
  /\ calls < MaxCalls
  /\ th[<<"wdep", h>>].pc = "idle"
  /\ Unpack(Exec(Start(Called(Pack), <<"wdep", h>>, "d_begin"), <<"wdep", h>>))

\* h.wait_for_children()
WaitForChildren(h) ==
  /\ calls < MaxCalls
  /\ th[<<"wkids", h>>].pc = "idle"
  /\ Unpack(Exec(Start(Called(Pack), <<"wkids", h>>, "j_begin"), <<"wkids", h>>))

\* h.run(coroutine) is called and suspends on the coroutine
Run(h) ==
  /\ calls < MaxCalls
  /\ th[<<"run", h>>].pc = "idle"
  /\ Unpack(Exec(Start(Called(Pack), <<"run", h>>, "r_begin"), <<"run", h>>))

\* the coroutine awaited by h.run ends
RunFinish(h, outcome) ==
  LET t == <<"run", h>> IN
  /\ th[t].pc = "r_await"
  /\ Unpack(Exec([Pack EXCEPT !.th[t].pc = "r_end", !.th[t].outcome = outcome], t))

\* The handles below h in the tree (TaskInfo.parent, followed upwards).
RECURSIVE Above(_, _)
Above(h, d) ==
  IF parent[d] = NoHandle THEN FALSE
  ELSE parent[d] = h \/ Above(h, parent[d])
Descendants(h) == {d \in created : Above(h, d)}

\* h.cancel(include_children, timeout, reason): tmo is `timeout is not None`
Cancel(h, incl, tmo, reason) ==
  LET t == <<"cancel", h>> IN
  /\ calls < MaxCalls
  /\ th[t].pc = "idle"
  /\ Unpack(Exec([Called(Pack) EXCEPT
                    !.th[t] = [IdleThread EXCEPT !.pc = "k_begin", !.incl = incl,
                                                 !.tmo = tmo, !.reason = reason,
                                                 !.st0 = state[h],
                                                 !.desc0 = Descendants(h)]], t))

\* Asyn.__aenter__
ScopeEnter(h) ==
  /\ calls < MaxCalls
  /\ scope[h] = "out"
  /\ LET s == [Called(Pack) EXCEPT !.scope[h] = "in"]
     IN Unpack(IF state[h] = "PENDING"
               THEN [s EXCEPT !.state[h] = "RUNNING", !.start_time[h] = Stamp(@)]
               ELSE s)

\* Asyn.__aexit__(exc_type, ...): the body of the scope ended with exc
ScopeExit(h, exc) ==
  LET t == <<"exit", h>> IN
  /\ calls < MaxCalls
  /\ scope[h] = "in"
  /\ th[t].pc = "idle"
  /\ Unpack(Exec([Called(Pack) EXCEPT
                    !.exitExc[h] = exc,
                    !.th[t] = [IdleThread EXCEPT !.pc = "c_begin", !.tgt = h,
                                                 !.ret = "x_done"]], t))

\* The event loop runs its ready callbacks first in, first out: the monitor
\* task a constructor schedules has started before anything that needs a later
\* iteration of the loop happens.
LoopTurned == \A h \in H : mon[h] \notin {"scheduled", "stopping"}

\* Whether a child of h can be old enough for _cleanup_zombies to clean it up.
CanBeOld(h) ==
  {TRUE : k \in {c \in children[h] : end_time[c] # 0 /\ task[c] \in TaskDoneValues}}
    \cup {FALSE}

\* the event loop starts the monitor task of h: one sweep
MonitorStart(h, ord, old) ==
  LET t == <<"mon", h>> IN
  /\ mon[h] = "scheduled"
  /\ Unpack(Exec([Pack EXCEPT
                    !.mon[h] = "sweeping",
                    !.th[t] = [IdleThread EXCEPT !.pc = "m_begin", !.ord = ord,
                                                 !.old = old]], t))

\* the event loop runs the first step of a monitor task cancelled before it
\* started: the task ends cancelled, _monitor_done_callback clears the reference
MonitorStop(h) ==
  /\ mon[h] = "stopping"
  /\ mon' = [mon EXCEPT ![h] = "done"]
  /\ UNCHANGED <<created, parent, children, state, start_time, end_time, exception,
                 task, cb, cancel_reason, blocked_reason, dependencies, dependents,
                 callbacks, trace, cleanups, scope, exitExc, max_runtime,
                 total_runtime, grp, gat, wf, info_parent,
                 got, th, calls>>

\* one of the child._cancel_self tasks of a fan-out runs
ChildCancelSelf(t, k) ==
  /\ LoopTurned
  /\ th[t].pc \in {"c_kids", "k_kids"}
  /\ k \in th[t].todo
  /\ LET s == Pack
         s1 == IF TaskActive(s, k)
               THEN [CancelSelf(s, k, th[t].creason)
                       EXCEPT !.th[t].wait = @ \cup {k}, !.th[t].hit = @ \cup {k}]
               ELSE s
     IN Unpack([s1 EXCEPT !.th[t].todo = @ \ {k}])

\* the timeout of wait_for(gather(...)) elapses: wait_for cancels the gathered
\* tasks (each hands the request to the runtime task it awaits) and goes on
\* waiting until they are done
Timeout(t) ==
  /\ LoopTurned
  /\ th[t].pc \in {"c_kids", "k_kids"}
  /\ th[t].bounded /\ ~th[t].timedOut
  /\ th[t].todo = {}
  /\ ~CanResume(Pack, t)
  /\ Unpack([RequestCancelAll(Pack, th[t].wait) EXCEPT !.th[t].timedOut = TRUE])

\* The task that runs the suspended coroutine t (a run, a cancel or a scope
\* exit) is cancelled while the coroutine is inside a cancel or a cleanup.
CancelCaller(t) ==
  /\ LoopTurned
  /\ calls < MaxCalls
  /\ t[1] \in {"run", "cancel", "exit"}
  /\ ~th[t].ccl
  /\ th[t].pc \in {"c_mon", "c_self", "k_self", "c_kids", "k_kids"}
  /\ Unpack(CallerCancel(Called(Pack), t))

\* a suspended coroutine wakes up
Resume(t) ==
  /\ LoopTurned
  /\ CanResume(Pack, t)
  /\ Unpack(Exec(Goto(Pack, t, ResumePc(Pack, t)), t))

\* the coroutine of the runtime task of h returns
TaskReturn(h) ==
  /\ LoopTurned
  /\ task[h] \in {"running", "cancelling"}
  /\ task' = [task EXCEPT ![h] = "returned"]
  /\ UNCHANGED <<created, parent, children, state, start_time, end_time, exception,
                 cb, cancel_reason, blocked_reason, dependencies, dependents, mon,
                 callbacks, trace, cleanups, scope, exitExc, max_runtime,
                 total_runtime, grp, gat, wf, info_parent,
                 got, th, calls>>

\* ... raises an exception
TaskRaise(h) ==
  /\ LoopTurned
  /\ task[h] \in {"running", "cancelling"}
  /\ task' = [task EXCEPT ![h] = "raised"]
  /\ UNCHANGED <<created, parent, children, state, start_time, end_time, exception,
                 cb, cancel_reason, blocked_reason, dependencies, dependents, mon,
                 callbacks, trace, cleanups, scope, exitExc, max_runtime,
                 total_runtime, grp, gat, wf, info_parent,
                 got, th, calls>>

\* ... lets the CancelledError of a cancellation request through
TaskCancelled(h) ==
  /\ LoopTurned
  /\ task[h] = "cancelling"
  /\ task' = [task EXCEPT ![h] = "cancelled"]
  /\ UNCHANGED <<created, parent, children, state, start_time, end_time, exception,
                 cb, cancel_reason, blocked_reason, dependencies, dependents, mon,
                 callbacks, trace, cleanups, scope, exitExc, max_runtime,
                 total_runtime, grp, gat, wf, info_parent,
                 got, th, calls>>

\* ... catches the CancelledError and goes on
TaskRefuse(h) ==
  /\ LoopTurned
  /\ task[h] = "cancelling"
  /\ task' = [task EXCEPT ![h] = "running"]
  /\ UNCHANGED <<created, parent, children, state, start_time, end_time, exception,
                 cb, cancel_reason, blocked_reason, dependencies, dependents, mon,
                 callbacks, trace, cleanups, scope, exitExc, max_runtime,
                 total_runtime, grp, gat, wf, info_parent,
                 got, th, calls>>

\* the event loop runs the done callback of the finished task
DoneCallback(h) ==
  /\ LoopTurned
  /\ task[h] \in TaskDoneValues
  /\ cb[h] = "armed"
  /\ Unpack(TaskDoneCallback(Pack, h))

\* async with group: AsyncTaskGroup.__aenter__
GroupEnter ==
  /\ calls < MaxCalls
  /\ grp.phase = "new"
  /\ Unpack([Called(Pack) EXCEPT !.grp.active = TRUE, !.grp.phase = "in"])

\* await group.create_task(coro)
GroupCreateTask ==
  /\ calls < MaxCalls
  /\ created # H
  /\ Unpack(GroupCreate(Called(Pack), NewHandle))

\* the body of the group's block ends, with nothing or with a CancelledError
GroupExit(exc) ==
  /\ calls < MaxCalls
  /\ grp.phase = "in"
  /\ Unpack(GroupExitBegin(Called(Pack), exc))

\* the event loop runs the group's done callback of the finished task of k
GroupTaskDone(k) ==
  /\ LoopTurned
  /\ k \in grp.native
  /\ task[k] \in TaskDoneValues
  /\ Unpack(NativeTaskDone(Pack, k))

\* the exit of the group wakes up: no task of the group is left
GroupExited ==
  /\ LoopTurned
  /\ grp.phase = "exiting"
  /\ grp.native = {}
  /\ Unpack(GroupExitEnd(Pack))

\* await Asyn.gather(coro_1 .. coro_n, return_exceptions=rexc)
AsynGather(n, rexc) ==
  /\ calls < MaxCalls
  /\ gat.res = "none"
  /\ Cardinality(H \ created) >= n
  /\ Unpack(GatherBegin(Called(Pack), FreshHandles(H \ created, n), rexc))

\* await Asyn.wait_for(coro, timeout)
AsynWaitFor ==
  /\ calls < MaxCalls
  /\ wf.res = "none"
  /\ created # H
  /\ Unpack(WaitForBegin(Called(Pack), NewHandle))

\* the event loop starts the task asyncio.gather or asyncio.wait_for made of
\* run(coro) for handle h
InnerRunStart(h) ==
  /\ LoopTurned
  /\ h \in gat.unstarted \cup wf.unstarted
  /\ Unpack(Exec(Start([Pack EXCEPT !.gat.unstarted = @ \ {h},
                                    !.wf.unstarted = @ \ {h}],
                        <<"run", h>>, "r_begin"), <<"run", h>>))

\* the gather call wakes up; the tasks it made were scheduled together, so all
\* have started by then
AsynGatherEnd ==
  /\ LoopTurned
  /\ gat.res = "pending"
  /\ gat.unstarted = {}
  /\ GatherOver(Pack)
  /\ Unpack(GatherResult(Pack))

\* the timeout of the wait_for call elapses
WaitForTimeout ==
  /\ LoopTurned
  /\ wf.res = "pending"
  /\ ~wf.timedOut
  /\ wf.unstarted = {}
  /\ Ended(Pack, wf.members, wf.unstarted) = {}
  /\ Unpack(WaitForExpire(Pack))

\* the wait_for call wakes up
AsynWaitForEnd ==
  /\ LoopTurned
  /\ wf.res = "pending"
  /\ Ended(Pack, wf.members, wf.unstarted) # {}
  /\ Unpack(WaitForResult(Pack))

\* The handles the application holds: those that gather and wait_for make for
\* themselves never leave the call.
Held == created \ (gat.members \cup wf.members)

\* Asyn.create_group(*ts)
CreateGroup(ts) ==
  /\ calls < MaxCalls
  /\ created # H
  /\ Unpack(AdoptTasks(Called(Pack), NewHandle, ts))

\* await p.ensure_future(coro) up to `await task`: the runtime task, then the
\* child under p with the task stored in it; no done callback is added
EnsureFuture(p) ==
  /\ calls < MaxCalls
  /\ created # H
  /\ LET n == NewHandle
     IN Unpack([Construct(Called(Pack), n, p) EXCEPT !.task[n] = "running"])

\* ------------------------------------------------------------ introspection
\* Asyn.get_task_tree: name, state.value and the trees of the children (by
\* handle number); the interpreter raises RecursionError when the calls nest
\* too deep.
RECURSIVE TaskTree(_, _, _)
TaskTree(s, h, depth) ==
  IF depth > RecursionLimit
  THEN [exc |-> "RecursionError", name |-> Name(h), state |-> "", children |-> <<>>]
  ELSE LET kids == Ascending(s.children[h])
           sub == [i \in DOMAIN kids |-> TaskTree(s, kids[i], depth + 1)]
       IN [exc |-> IF \E i \in DOMAIN sub : sub[i].exc # "none"
                   THEN "RecursionError" ELSE "none",
           name |-> Name(h), state |-> s.state[h], children |-> sub]

\* the application calls h.get_task_tree()
GetTaskTree(h) ==
  /\ calls < MaxCalls
  /\ LET r == TaskTree(Pack, h, 1)
     IN Unpack([Called(Pack) EXCEPT
                  !.got = [op |-> "get_task_tree", h |-> h, exc |-> r.exc,
                           val |-> r]])

\* The property Asyn.parent: its body is `return self.parent`, the property
\* itself, so every evaluation calls it again until the interpreter refuses
\* one more frame and raises RecursionError.
RECURSIVE ParentProperty(_, _, _)
ParentProperty(s, h, depth) ==
  IF depth > RecursionLimit THEN [exc |-> "RecursionError", val |-> <<>>]
  ELSE ParentProperty(s, h, depth + 1)

\* the application reads h.parent
ReadParent(h) ==
  /\ calls < MaxCalls
  /\ LET r == ParentProperty(Pack, h, 1)
     IN Unpack([Called(Pack) EXCEPT
                  !.got = [op |-> "parent", h |-> h, exc |-> r.exc, val |-> r.val]])

\* `task.info`: an Asyn has the attribute, a TaskInfo has not.
HasInfo(ref) == ref[1] = "Asyn"

\* path.index(x)
Index(path, x) ==
  CHOOSE i \in DOMAIN path :
    path[i] = x /\ \A j \in DOMAIN path : path[j] = x => i <= j

\* The references of set S as the loop `for dep in task.info.dependencies`
\* visits them (by handle number).
RefSeq(S) ==
  LET hs == Ascending({r[2] : r \in S})
  IN [i \in DOMAIN hs |-> CHOOSE r \in S : r[2] = hs[i]]

\* The inner function visit of TaskInfo.check_deadlock and its loop over the
\* dependencies.  The result is the exception raised ("none": it returned), the
\* value returned (<<>> for None, <<cycle>> for a cycle) and the visited set.
RECURSIVE Visit(_, _, _, _)
RECURSIVE VisitDeps(_, _, _, _)
Visit(s, ref, path, visited) ==
  IF ref \in Range(path)
  THEN [exc |-> "none", visited |-> visited,
        cycle |-> <<{path[i] : i \in Index(path, ref)..Len(path)}>>]
  ELSE IF ref \in visited
  THEN [exc |-> "none", visited |-> visited, cycle |-> <<>>]
  ELSE IF ~HasInfo(ref)
  THEN [exc |-> "AttributeError", visited |-> visited \cup {ref}, cycle |-> <<>>]
  ELSE VisitDeps(s, RefSeq(s.dependencies[ref[2]]), Append(path, ref),
                 visited \cup {ref})

VisitDeps(s, deps, path, visited) ==
  IF deps = <<>> THEN [exc |-> "none", visited |-> visited, cycle |-> <<>>]
  ELSE LET r == Visit(s, Head(deps), path, visited)
       IN IF r.exc # "none" \/ r.cycle # <<>> THEN r
          ELSE VisitDeps(s, Tail(deps), path, r.visited)

\* h.info.check_deadlock(): `return visit(self)`, where self is the TaskInfo
CheckDeadlock(h) ==
  /\ calls < MaxCalls
  /\ LET r == Visit(Pack, InfoRef(h), <<>>, {})
     IN Unpack([Called(Pack) EXCEPT
                  !.got = [op |-> "check_deadlock", h |-> h, exc |-> r.exc,
                           val |-> r.cycle]])

Next ==
  \/ \E p \in Held \cup {NoHandle} : CreateHandle(p)
  \/ \E p \in Held : CreateTask(p)
  \/ \E h \in Held, c \in CallbackIds : RegisterCleanup(h, c)
  \/ \E h \in Held, v \in RuntimeLimits : SetResourceLimit(h, v)
  \/ GroupEnter
  \/ GroupCreateTask
  \/ \E e \in {"none", "cancel"} : GroupExit(e)
  \/ \E k \in created : GroupTaskDone(k)
  \/ GroupExited
  \/ \E n \in GatherSizes, rexc \in BOOLEAN : AsynGather(n, rexc)
  \/ AsynWaitFor
  \/ \E h \in created : InnerRunStart(h)
  \/ AsynGatherEnd
  \/ WaitForTimeout
  \/ AsynWaitForEnd
  \/ \E b \in Held, a \in Held : AddDependency(b, a)
  \/ \E b \in Held, a \in Held : RemoveDependency(b, a)
  \/ \E h \in Held : WaitDependencies(h)
  \/ \E h \in Held : WaitForChildren(h)
  \/ \E h \in Held : Run(h)
  \/ \E h \in created, o \in Outcomes : RunFinish(h, o)
  \/ \E h \in Held, incl \in BOOLEAN, tmo \in BOOLEAN, r \in Reasons :
       Cancel(h, incl, tmo, r)
  \/ \E h \in Held : ScopeEnter(h)
  \/ \E h \in Held, e \in ExcTypes : ScopeExit(h, e)
  \/ \E h \in created : \E ord \in Orders(children[h]), old \in CanBeOld(h) :
       MonitorStart(h, ord, old)
  \/ \E h \in created : MonitorStop(h)
  \/ \E t \in Threads, k \in H : ChildCancelSelf(t, k)
  \/ \E t \in Threads : Timeout(t)
  \/ \E t \in Threads : CancelCaller(t)
  \/ \E t \in Threads : Resume(t)
  \/ \E h \in created : TaskReturn(h)
  \/ \E h \in created : TaskRaise(h)
  \/ \E h \in created : TaskCancelled(h)
  \/ \E h \in created : TaskRefuse(h)
  \/ \E h \in created : DoneCallback(h)

Spec == Init /\ [][Next]_vars

\* The application builds its tree with every call that registers a child,
\* create_group and ensure_future included, cancels the handles and enters and
\* leaves their scopes; the monitors and the runtime tasks go on as in Spec.
NextTree ==
  \/ \E p \in created \cup {NoHandle} : CreateHandle(p)
  \/ \E p \in created : CreateTask(p)
  \/ \E ts \in SUBSET created : ts # {} /\ CreateGroup(ts)
  \/ \E p \in created : EnsureFuture(p)
  \/ \E h \in created, incl \in BOOLEAN, tmo \in BOOLEAN, r \in Reasons :
       Cancel(h, incl, tmo, r)
  \/ \E h \in created : ScopeEnter(h)
  \/ \E h \in created, e \in ExcTypes : ScopeExit(h, e)
  \/ \E h \in created : \E ord \in Orders(children[h]), old \in CanBeOld(h) :
       MonitorStart(h, ord, old)
  \/ \E h \in created : MonitorStop(h)
  \/ \E t \in Threads, k \in H : ChildCancelSelf(t, k)
  \/ \E t \in Threads : Timeout(t)
  \/ \E t \in Threads : Resume(t)
  \/ \E h \in created : TaskReturn(h)
  \/ \E h \in created : TaskRaise(h)
  \/ \E h \in created : TaskCancelled(h)
  \/ \E h \in created : TaskRefuse(h)
  \/ \E h \in created : DoneCallback(h)

SpecTree == Init /\ [][NextTree]_vars

\* The application builds handles and dependencies and reads them back.
NextRead ==
  \/ \E p \in created \cup {NoHandle} : CreateHandle(p)
  \/ \E p \in created : CreateTask(p)
  \/ \E ts \in SUBSET created : ts # {} /\ CreateGroup(ts)
  \/ \E p \in created : EnsureFuture(p)
  \/ \E b \in created, a \in created : AddDependency(b, a)
  \/ \E b \in created, a \in created : RemoveDependency(b, a)
  \/ \E h \in created : ReadParent(h)
  \/ \E h \in created : CheckDeadlock(h)
  \/ \E h \in created : GetTaskTree(h)

SpecRead == Init /\ [][NextRead]_vars

\* ------------------------------------------------------------------ claims
\* The step in which the application calls the operation of thread t.
Invoked(t) ==
  LET h == t[2] IN
  CASE t[1] = "run" -> Run(h)
    [] t[1] = "cancel" ->
         \E incl \in BOOLEAN, tmo \in BOOLEAN, r \in Reasons : Cancel(h, incl, tmo, r)
    [] t[1] = "exit" -> \E e \in ExcTypes : ScopeExit(h, e)
    [] t[1] = "wdep" -> WaitDependencies(h)
    [] t[1] = "wkids" -> WaitForChildren(h)
    [] OTHER -> FALSE

\* The step in which the coroutine of thread t returns to its caller: after a
\* suspension, or within the step of the call.
Returns(t) == th'[t].pc = "idle" /\ (th[t].pc # "idle" \/ Invoked(t))

\* C1: the cleanup protocol of a handle runs at most once in its lifetime, and
\* so does each of its cleanup callbacks, whatever run, cancel, scope exit and
\* the monitors do.
C1_CleanupOnce ==
  \A h \in H :
    /\ cleanups[h] <= 1
    /\ \A c \in CallbackIds :
         Cardinality({i \in DOMAIN trace[h] : trace[h][i] = c}) <= 1

\* C2: no step changes the state of a handle that is COMPLETED, CANCELLED or
\* FAILED.
C2_TerminalStable ==
  [][\A h \in H : Terminal(state[h]) => state'[h] = state[h]]_vars

\* C3: when run returns to its caller the handle is COMPLETED if the coroutine
\* returned, FAILED with the exception stored if it raised, CANCELLED if it was
\* cancelled.
RunState(res) ==
  CASE res = "returned" -> "COMPLETED"
    [] res = "raised" -> "FAILED"
    [] OTHER -> "CANCELLED"

C3_RunOutcome ==
  [][\A h \in H :
       Returns(<<"run", h>>) =>
         /\ state'[h] = RunState(th'[<<"run", h>>].res)
         /\ th'[<<"run", h>>].res = "raised" => exception'[h] = "Err"]_vars

\* C4: when the scope of a handle has exited, the handle is COMPLETED if the
\* body raised nothing, CANCELLED if it exited with a cancellation, FAILED with
\* the exception stored otherwise.
ExitState(exc) ==
  CASE exc = "none" -> "COMPLETED"
    [] exc = "cancel" -> "CANCELLED"
    [] OTHER -> "FAILED"

C4_ScopeExitState ==
  [][\A h \in H :
       Returns(<<"exit", h>>) =>
         /\ state'[h] = ExitState(exitExc'[h])
         /\ exitExc'[h] = "error" => exception'[h] = "Err"]_vars

\* C5: when cancel returns on a root that was not terminal and had a running
\* child, the root and that child are CANCELLED.
C5_CancelRootAndChild ==
  [][\A h \in H :
       LET t == <<"cancel", h>> IN
       (/\ Returns(t)
        /\ th'[t].res = "ok"
        /\ parent[h] = NoHandle
        /\ ~Terminal(th[t].st0)
        /\ th[t].incl
        /\ th[t].hit # {})
       => /\ state'[h] = "CANCELLED"
          /\ \A k \in th[t].hit : state'[k] = "CANCELLED"]_vars

\* C6: when cancel (with its children) returns, every handle that was below it
\* in the tree when it was called is terminal or has at least been asked to
\* cancel: none is left with its runtime task running untouched.
C6_CancelReachesDescendants ==
  [][\A h \in H :
       LET t == <<"cancel", h>> IN
       (Returns(t) /\ th'[t].res = "ok" /\ th[t].incl)
       => \A d \in th[t].desc0 :
            task'[d] = "running" =>
              Terminal(state'[d]) \/ cancel_reason'[d] # <<>>]_vars

\* C7: when the scope of a parent has exited, its children registry is empty
\* and every handle created under it is terminal.
C7_ScopeExitOwnsChildren ==
  [][\A p \in H :
       Returns(<<"exit", p>>) =>
         /\ children'[p] = {}
         /\ \A k \in created : parent[k] = p => Terminal(state'[k])]_vars

\* C8: a cancel call on a terminal handle changes nothing: no state, end_time,
\* debug_info or registry, and no cleanup callback runs again.
C8_CancelTerminalNoOp ==
  [][\A h \in H : \A incl \in BOOLEAN, tmo \in BOOLEAN, r \in Reasons :
       (Terminal(state[h]) /\ Cancel(h, incl, tmo, r)) =>
         /\ state' = state
         /\ end_time' = end_time
         /\ cancel_reason' = cancel_reason
         /\ blocked_reason' = blocked_reason
         /\ children' = children
         /\ task' = task
         /\ trace' = trace
         /\ cleanups' = cleanups]_vars

\* C9: cancel(include_children=False) leaves the runtime task, the state and the
\* cancel reason of every child as they were.
C9_ExcludeChildren ==
  [][\A h \in H, k \in H :
       (ChildCancelSelf(<<"cancel", h>>, k) /\ ~th[<<"cancel", h>>].incl) =>
         /\ task'[k] = task[k]
         /\ state'[k] = state[k]
         /\ cancel_reason'[k] = cancel_reason[k]]_vars

\* C10: every cancel reason that cancel(reason=r), called with its children,
\* gives a child is "Parent cancelled: r", in the fan-out of cancel as in the
\* cleanup that ends it.
C10_ChildReason ==
  [][\A h \in H, k \in H :
       LET t == <<"cancel", h>> IN
       (ChildCancelSelf(t, k) /\ th[t].incl /\ TaskActive(Pack, k)) =>
         cancel_reason'[k] = <<"Parent cancelled: " \o Str(th[t].reason)>>]_vars

\* The other handles whose dependencies hold handle h.
DependOn(h) == {b \in H \ {h} : AsynRef(h) \in dependencies[b]}

\* Every handle that depends on h is marked BLOCKED, with a reason.
DependentsBlocked(h) ==
  \A b \in DependOn(h) : state'[b] = "BLOCKED" /\ blocked_reason'[b] # <<>>

\* C11: when a cancel call that left its handle CANCELLED, a run whose coroutine
\* raised or a scope exit on an exception returns, the call has completed
\* normally (run with the coroutine's own exception) and every handle that
\* depends on the handle is BLOCKED with a blocked_reason.
C11_DependentsNotified ==
  [][\A h \in H :
       /\ (Returns(<<"cancel", h>>) /\ state[h] = "CANCELLED")
            => th'[<<"cancel", h>>].res = "ok" /\ DependentsBlocked(h)
       /\ (Returns(<<"run", h>>) /\ th'[<<"run", h>>].res = "raised")
            => DependentsBlocked(h)
       /\ (Returns(<<"exit", h>>) /\ exitExc'[h] # "none")
            => DependentsBlocked(h)]_vars

\* C12: at every moment, b is in a.dependents exactly when a is in
\* b.dependencies.
C12_DependencySymmetry ==
  \A a \in H, b \in H :
    AsynRef(b) \in dependents[a] <=> AsynRef(a) \in dependencies[b]

\* Whether handle a depends on handle b, directly or through other handles
\* (or is b itself).
RECURSIVE ReachesIn(_, _, _)
ReachesIn(a, b, n) ==
  \/ a = b
  \/ /\ n > 0
     /\ \E c \in H : AsynRef(c) \in dependencies[a] /\ ReachesIn(c, b, n - 1)
Reaches(a, b) == ReachesIn(a, b, NumHandles)

\* C13: b.add_dependency(a) when another handle a already depends on b would
\* close a cycle: it adds no edge, dependencies and dependents of every handle stay as they were.
C13_NoCycleAdded ==
  [][\A a \in H, b \in H :
       (a # b /\ AddDependency(b, a) /\ Reaches(a, b)) =>
         dependencies' = dependencies /\ dependents' = dependents]_vars

\* The other handles that handle h depends on.
DependenciesOf(h) == {d \in H \ {h} : AsynRef(d) \in dependencies[h]}

\* C14: when wait_dependencies returns, every handle the caller depends on is
\* in a terminal state, with or without a runtime task.
C14_WaitDependencies ==
  [][\A h \in H :
       (Returns(<<"wdep", h>>) /\ th'[<<"wdep", h>>].res = "ok") =>
         \A d \in DependenciesOf(h) : Terminal(state'[d])]_vars

\* C15: a handle whose run is called while one of its dependencies has not
\* completed does not start (it is BLOCKED, not RUNNING), and when the run of a
\* handle returns every dependency of it is COMPLETED: completion follows the
\* dependency order.
C15_RunFollowsDependencies ==
  [][\A h \in H :
       /\ (Run(h) /\ \E d \in DependenciesOf(h) : state[d] # "COMPLETED")
            => state'[h] = "BLOCKED"
       /\ Returns(<<"run", h>>)
            => \A d \in DependenciesOf(h) : state'[d] = "COMPLETED"]_vars

\* C16: when wait_for_children returns, the children registry of the handle is
\* empty and every handle created under it is terminal.
C16_WaitForChildren ==
  [][\A h \in H :
       (Returns(<<"wkids", h>>) /\ th'[<<"wkids", h>>].res = "ok") =>
         /\ children'[h] = {}
         /\ \A k \in created : parent[k] = h => Terminal(state'[k])]_vars

\* The callbacks that the step has invoked on handle h, in order.
InvokedNow(h) == SubSeq(trace'[h], Len(trace[h]) + 1, Len(trace'[h]))

C19_CleanupOnEveryExit ==
  [][\A h \in H :
       (Returns(<<"exit", h>>) \/ Returns(<<"run", h>>)) =>
         cleanups'[h] = cleanups[h] + 1]_vars

\* C20: no step registers a child under a handle that is in a terminal state:
\* Asyn(parent=p) and p.create_task on a terminal p leave the registry and the
\* set of handles as they were.
C20_NoChildUnderTerminal ==
  [][\A p \in H :
       (Terminal(state[p]) /\ (CreateHandle(p) \/ CreateTask(p))) =>
         children' = children /\ created' = created]_vars

\* C21: at every moment, a handle that has a parent and whose scope is active
\* is in the children registry of its parent.
C21_RegisteredWhileActive ==
  \A h \in H :
    (scope[h] = "in" /\ parent[h] # NoHandle) => h \in children[parent[h]]

\* C22: a running handle whose runtime statistic is beyond its limit is
\* cancelled by its monitor: as long as the handle is in that situation the
\* monitor task that has to cancel it is there (scheduled or sweeping); the
\* handle is never left RUNNING over its limit with no monitor.
C22_LimitEnforced ==
  \A h \in H :
    (state[h] = "RUNNING" /\ CheckResourceLimits(Pack, h)) =>
      mon[h] \in {"scheduled", "sweeping"}

\* C23: the wait of a cancel call for the children it has cancelled, in its own
\* fan-out and in the cleanup it runs, is bounded by a timeout: while cancel
\* waits for children that have not finished, a timeout that ends the wait is
\* still to come, whatever the timeout argument of the call.
C23_CancelWaitBounded ==
  \A h \in H :
    LET t == <<"cancel", h>> IN
    (th[t].pc \in {"c_kids", "k_kids"} /\ th[t].todo = {} /\ ~CanResume(Pack, t))
      => th[t].bounded /\ ~th[t].timedOut

\* C24: a create_task call on a group that is not active (not yet entered, or
\* exited) fails, creates no handle, spawns no runtime task and registers no
\* child: the handles, their tasks and monitors, the registries and the tasks
\* of the group stay as they were.
C24_InactiveGroupRefuses ==
  [][(GroupCreateTask /\ grp.phase # "in") =>
       /\ grp'.res = "not active"
       /\ created' = created
       /\ task' = task
       /\ mon' = mon
       /\ children' = children
       /\ grp'.tasks = grp.tasks
       /\ grp'.native = grp.native]_vars

\* A create_task call on a group that has exited was refused.
C24_Witness == grp.phase = "exited" /\ grp.res = "not active"

\* C25: when the exit of a group in which a child failed ends, it has raised
\* one aggregate whose components are the exceptions of exactly the children
\* whose task raised; a child whose task returned is COMPLETED and a child whose
\* task raised is FAILED.
C25_GroupAggregate ==
  [][(grp.phase # "exited" /\ grp'.phase = "exited"
        /\ \E k \in grp.tasks : task[k] = "raised") =>
       /\ grp'.raised = [kind |-> "group",
                         causes |-> {k \in grp.tasks : task[k] = "raised"}]
       /\ \A k \in grp.tasks :
            /\ task[k] = "returned" => state'[k] = "COMPLETED"
            /\ task[k] = "raised" => state'[k] = "FAILED"]_vars

\* C26: when a gather with return_exceptions=False ends on the failure of one
\* of its coroutines, every gathered coroutine that has not finished has been
\* cancelled through its handle: the handle is CANCELLED or a cancel call on it
\* is under way.
C26_GatherCancelsRest ==
  [][(gat.res = "pending" /\ gat'.res = "raised" /\ ~gat.rexc) =>
       \A m \in gat.members :
         m \notin Ended(Pack, gat.members, gat.unstarted) =>
           \/ state'[m] = "CANCELLED"
           \/ th'[<<"cancel", m>>].pc # "idle"]_vars

\* C27: a wait_for whose timeout has elapsed before the coroutine ended
\* delivers a timeout failure to its caller, and the coroutine has ended
\* cancelled.
C27_TimeoutFidelity ==
  [][(wf.res = "pending" /\ wf'.res # "pending" /\ wf.timedOut) =>
       /\ wf'.res = "timeout"
       /\ \A m \in wf.members : th'[<<"run", m>>].res = "cancelled"]_vars

\* C28: in every state, a handle that is COMPLETED, CANCELLED or FAILED has its
\* end_time set.
C28_TerminalHasEndTime ==
  \A h \in H : Terminal(state[h]) => end_time[h] # 0

\* The state changes the lifecycle allows.
AllowedTransitions ==
  {<<"PENDING", "RUNNING">>, <<"RUNNING", "COMPLETED">>, <<"RUNNING", "FAILED">>,
   <<"RUNNING", "CANCELLED">>, <<"RUNNING", "BLOCKED">>, <<"BLOCKED", "RUNNING">>}

\* C29: every step that changes the state of a handle takes it along one of
\* the allowed transitions.
C29_OnlyListedTransitions ==
  [][\A h \in H :
       state'[h] # state[h] => <<state[h], state'[h]>> \in AllowedTransitions]_vars

\* C30: the step that creates a handle under a parent p, by Asyn(parent=p) or
\* by p.create_task, puts the new handle in p's children registry, starts its
\* monitor task (one, where there was none) and leaves it PENDING with
\* start_time and end_time unset; create_task has stored the runtime task by
\* the end of the same step.
C30_CreateRegisters ==
  [][\A p \in H :
       (CreateHandle(p) \/ CreateTask(p)) =>
         LET n == NewHandle IN
         /\ created' = created \cup {n}
         /\ children'[p] = children[p] \cup {n}
         /\ parent'[n] = p
         /\ mon[n] = "none" /\ mon'[n] = "scheduled"
         /\ state'[n] = "PENDING"
         /\ start_time'[n] = 0
         /\ end_time'[n] = 0
         /\ CreateTask(p) => task'[n] = "running"]_vars

\* A child made by create_task is in its parent's registry, PENDING, with its
\* monitor task scheduled and its runtime task running.
C30_Witness ==
  \E n \in created :
    /\ parent[n] # NoHandle
    /\ n \in children[parent[n]]
    /\ mon[n] = "scheduled"
    /\ state[n] = "PENDING"
    /\ start_time[n] = 0 /\ end_time[n] = 0
    /\ task[n] = "running"

\* C31: reading h.parent returns, without raising, the handle h was created
\* under, or None for a root.
C31_ParentRead ==
  [][\A h \in H :
       ReadParent(h) =>
         /\ got'.exc = "none"
         /\ got'.val = parent[h]]_vars

\* C32: the cleanup of a handle keeps the order of its steps: by the step that
\* runs the callbacks and sets the final state, the monitor of the handle has
\* been stopped and its runtime task has ended, and between the callbacks and
\* the final state the handles that depend on it have been notified.
C32_CleanupOrder ==
  [][\A c \in H :
       cleanups'[c] = cleanups[c] + 1 =>
         /\ mon'[c] \notin {"scheduled", "stopping", "sweeping"}
         /\ task'[c] \notin {"running", "cancelling"}
         /\ DependentsBlocked(c)]_vars

\* C33: a cleanup in which the cancel-children step fails (the exception of
\* the interrupted wait leaves _cancel_children) still runs its later steps:
\* in the step in which that exception surfaces the callbacks run and the
\* handle gets its final state, which for a scope exit is the one that matches
\* how the body of the scope ended.
C33_StepFailureContained ==
  [][\A t \in Threads :
       (th[t].pc = "c_kids" /\ th[t].abort /\ Resume(t)) =>
         LET c == th[t].tgt IN
         /\ cleanups'[c] = cleanups[c] + 1
         /\ Terminal(state'[c])
         /\ t[1] = "exit" => state'[c] = ExitState(exitExc[c])]_vars

\* C34: the monitor task of a handle ends only when a cleanup of the handle
\* stops it: in every step in which a monitor ends, it had been cancelled
\* before it started or a cleanup of its handle is waiting for it to stop.
C34_MonitorKeepsSweeping ==
  [][\A h \in H :
       (mon[h] # "done" /\ mon'[h] = "done") =>
         \/ mon[h] = "stopping"
         \/ \E t \in Threads : th[t].pc = "c_mon" /\ th[t].tgt = h]_vars

\* Whether handle c is on a dependency cycle, and whether such a handle can be
\* reached from h along dependency edges.
OnCycle(c) == \E d \in H : AsynRef(d) \in dependencies[c] /\ Reaches(d, c)
CycleReachable(h) == \E c \in H : Reaches(h, c) /\ OnCycle(c)

\* C35: the deadlock check on h returns (it does not raise); it returns a
\* cycle exactly when a dependency cycle can be reached from h, and the handles
\* of the cycle it returns are on a cycle and reachable from h.
C35_DeadlockCheck ==
  [][\A h \in H :
       CheckDeadlock(h) =>
         /\ got'.exc = "none"
         /\ got'.val # <<>> <=> CycleReachable(h)
         /\ got'.val # <<>> =>
              \A r \in got'.val[1] : Reaches(h, r[2]) /\ OnCycle(r[2])]_vars

\* The only write of BLOCKED is in _notify_dependents, on the members of
\* info.dependents; add_dependency puts TaskInfo objects there, on which the
\* write raises: no handle is ever BLOCKED.
NeverBlocked == \A h \in H : state[h] # "BLOCKED"

\* The state the done callback gives a handle whose task ended as tv.
CallbackState(tv) ==
  CASE tv = "returned" -> "COMPLETED"
    [] tv = "raised" -> "FAILED"
    [] OTHER -> "CANCELLED"

\* What the done callback of the task of h does in its step.
CallbackFinishes(h) ==
  DoneCallback(h) =>
    /\ state'[h] = CallbackState(task[h])
    /\ task[h] = "raised" => exception'[h] = "Err"
    /\ end_time'[h] # 0 /\ end_time'[h] # end_time[h]

\* C37 as stated: a child made by create_task whose task is executing and
\* that has not been cancelled is PENDING, and the done callback of its task
\* gives it, in one step, the state that matches how the task ended and its
\* end_time.
C37_ChildLifecycle ==
  [][\A h \in H :
       /\ (cb'[h] = "armed" /\ task'[h] = "running" /\ cancel_reason'[h] = <<>>)
            => state'[h] = "PENDING"
       /\ CallbackFinishes(h)]_vars

\* C37, amended: the same, for a child that the application has not started
\* itself (run on the child and the entry of its scope make it RUNNING and set
\* start_time).
C37_ChildLifecycleUnstarted ==
  [][\A h \in H :
       /\ (/\ cb'[h] = "armed" /\ task'[h] = "running"
           /\ cancel_reason'[h] = <<>>
           /\ start_time'[h] = 0)
            => state'[h] = "PENDING"
       /\ CallbackFinishes(h)]_vars

\* The done callback has marked a child that was never started FAILED, with
\* the exception and end_time.
C37_Witness ==
  \E h \in created :
    /\ cb[h] = "fired"
    /\ task[h] = "raised"
    /\ start_time[h] = 0
    /\ cancel_reason[h] = <<>>
    /\ state[h] = "FAILED"
    /\ exception[h] = "Err"
    /\ end_time[h] # 0

\* C38: every handle is in the children registry of at most one handle, the
\* one recorded as its parent: after create_group the tasks it was given are
\* in the registry of the group only.
C38_OneParent ==
  \A h \in H :
    /\ Cardinality({p \in H : h \in children[p]}) <= 1
    /\ \A p \in H : h \in children[p] => parent[h] = p

\* The handles reachable from those of S through the children registries, in
\* at most n steps.
RECURSIVE Reach(_, _)
Reach(S, n) ==
  IF n = 0 THEN S
  ELSE Reach(S \cup UNION {children[k] : k \in S}, n - 1)
Below(h) == Reach(children[h], NumHandles)

\* The (name, state) pairs of the nodes of a tree.
RECURSIVE Nodes(_)
Nodes(tree) ==
  {<<tree.name, tree.state>>}
    \cup UNION {Nodes(tree.children[i]) : i \in DOMAIN tree.children}

\* C39: in every state no handle is below itself in the children registries,
\* and get_task_tree on any handle returns (it ends without exhausting the
\* stack) a tree whose nodes are exactly the handle and the handles below it,
\* each with its current state.
C39_TreeAcyclic ==
  /\ \A h \in H : h \notin Below(h)
  /\ \A h \in created :
       LET t == TaskTree(Pack, h, 1) IN
       /\ t.exc = "none"
       /\ Nodes(t) = {<<Name(k), state[k]>> : k \in {h} \cup Below(h)}

\* create_group has put a handle that has a child of its own under a new
\* group: the tree of the group has three levels.
C39_Witness ==
  \E g \in created, k \in created, c \in created :
    /\ k \in children[g] /\ info_parent[k] = g
    /\ c \in children[k]
    /\ Len(TaskTree(Pack, g, 1).children) = 1
    /\ Len(TaskTree(Pack, g, 1).children[1].children) = 1

\* C40: a cancel call with a timeout on a handle that has no runtime task
\* completes without raising, whether it ends within the step of the call or
\* after a wait for the children; by then the handles that depend on the handle
\* are notified and its cleanup has run.
C40_CancelTimeoutNoTask ==
  [][\A h \in H :
       LET t == <<"cancel", h>> IN
       (/\ task[h] = "none"
        /\ th'[t].pc = "idle"
        /\ \/ \E incl \in BOOLEAN, r \in Reasons : Cancel(h, incl, TRUE, r)
           \/ th[t].pc # "idle" /\ th[t].tmo)
       => /\ th'[t].res = "ok"
          /\ DependentsBlocked(h)
          /\ cleanups'[h] = cleanups[h] + 1]_vars
====
